---- MODULE Spec2Model ----
(***************************************************************************)
(* Reference-data import engine of etl_processor:                          *)
(*   - SecureFileProcessor.secure_extract_zip   (security/file_security.py)*)
(*   - FileHashTracker                          (utils/file_hash_tracker.py)*)
(*   - ReferenceProcessor                (processors/reference_processor.py)*)
(* Each component is a state machine over its own variables; a             *)
(* specification of one component leaves the other components' variables   *)
(* at their initial value.                                                  *)
(***************************************************************************)
EXTENDS Integers, Sequences, FiniteSets, TLC

VARIABLES
    \* ---- secure_extract_zip ----
    zipEntries,      \* zip_ref.filelist: sequence of [filename, file_size]
    zipCompressed,   \* os.path.getsize(zip_path)
    zipPolicy,       \* security_config['file_validation'] (+ zip_extraction)
    zipPc,           \* "start" | "extract" | "returned" | "raised"
    zipIdx,          \* position of the extraction loop in namelist()
    destDir,         \* names written under extract_dir by this call
    extracted_files, \* the list the call builds and returns
    zipError,        \* which check or step raised ("none" while none did)
    \* ---- FileHashTracker ----
    file_hashes,     \* self.file_hashes: filename -> digest
    cacheFile,       \* content of reference_file_hashes.json
    fsContent,       \* path -> content of the file on disk
    trkCall,         \* the last tracker call and what it returned
    markedAs,        \* path -> content the path had when it was last marked
    \* ---- ReferenceProcessor ----
    refOrder,        \* config_loader.get_reference_order(import_type)
    onDisk,          \* files of temp_dir for which os.path.exists holds
    refPc,           \* position of process_reference_files
    fileIdx,         \* index of ref_file in reference_order
    recIdx,          \* index of the record of the current file
    pendingRows,     \* rows written by the open transaction
    committedRows,   \* rows made durable by session.commit()
    stmtLog,         \* INSERT statements executed, in order
    commitLog,       \* files for which session.commit() was issued
    rollbacks,       \* number of session.rollback() calls
    processed_files,
    skipped_files,
    lookup_cache,    \* self._lookup_cache: cache_key -> result
    queryLog,        \* every _perform_lookup call, in order, and how it was served
    lastSave,        \* the last _save_record call: source record, data, what it did
    refFailure,      \* what made the run raise ("none" while nothing did)
    force_process,   \* self.force_process
    \* ---- _save_record against one stored row ----
    storedRow,       \* the row of the table with the record's key (NoRow: none)
    saveData,        \* the data dict handed to _save_record
    savePc,          \* "ready" | "saved" (execute and flush done) | "skipped"
    \* ---- convert_field ----
    cvValue,         \* the value argument
    cvType,          \* the field_type argument
    cvFormat,        \* the field_format argument (NoFormat: None)
    cvOut            \* what the call did (NoOut: not called yet)

zipVars == <<zipEntries, zipCompressed, zipPolicy, zipPc, zipIdx, destDir,
             extracted_files, zipError>>
trkVars == <<file_hashes, cacheFile, fsContent, trkCall, markedAs>>
refVars == <<refOrder, onDisk, refPc, fileIdx, recIdx, pendingRows,
             committedRows, stmtLog, commitLog, rollbacks, processed_files,
             skipped_files, lookup_cache, queryLog, lastSave, refFailure>>
upVars == <<storedRow, saveData, savePc>>
cvVars == <<cvValue, cvType, cvFormat, cvOut>>
vars == <<zipVars, trkVars, refVars, force_process, upVars, cvVars>>

(***************************************************************************)
(* Strings are sequences of one-character strings, so that startswith,     *)
(* endswith, `in` and lower() are computed and not assumed.                *)
(***************************************************************************)
StartsWith(s, p) == Len(s) >= Len(p) /\ SubSeq(s, 1, Len(p)) = p

EndsWith(s, p) == Len(s) >= Len(p) /\ SubSeq(s, Len(s) - Len(p) + 1, Len(s)) = p

Contains(s, p) == \E i \in 1..(Len(s) - Len(p) + 1) : SubSeq(s, i, i + Len(p) - 1) = p

LowerChar(c) ==
    CASE c = "A" -> "a"
      [] c = "X" -> "x"
      [] c = "M" -> "m"
      [] c = "L" -> "l"
      [] c = "T" -> "t"
      [] c = "Y" -> "y"
      [] c = "E" -> "e"
      [] c = "S" -> "s"
      [] OTHER -> c

Lower(s) == [i \in 1..Len(s) |-> LowerChar(s[i])]

SeqsUpTo(S, n) == UNION {[1..k -> S] : k \in 0..n}

Range(s) == {s[i] : i \in 1..Len(s)}

RECURSIVE SumSizes(_, _)
SumSizes(entries, i) ==
    IF i > Len(entries) THEN 0 ELSE entries[i].file_size + SumSizes(entries, i + 1)

(***************************************************************************)
(*                         secure_extract_zip                              *)
(***************************************************************************)
MaxEntries == 2
MaxEntrySize == 2
MaxCompressed == 1

\* Entry names an archive of the model may hold.
PathNames ==
    { <<"a", ".", "x", "m", "l">>,            \* a.xml
      <<"b", ".", "x", "m", "l">>,            \* b.xml
      <<"A", ".", "X", "M", "L">>,            \* A.XML
      <<"/", "a", ".", "x", "m", "l">>,       \* /a.xml
      <<".", ".", "/", "a", ".", "x", "m", "l">>, \* ../a.xml
      <<"a", ".", "e", "x", "e">> }           \* a.exe

AllowedTypes == { <<".", "x", "m", "l">>, <<".", "j", "s", "o", "n">> }

\* zip_extraction policies: one that lets two entries through and whose
\* per-file limit exceeds validate_file's max_size, one that is tight.
Policies ==
    { [max_files |-> 2, max_ratio |-> 2, max_file_size |-> 2, max_size |-> 1],
      [max_files |-> 1, max_ratio |-> 1, max_file_size |-> 1, max_size |-> 1] }

Entries == [filename : PathNames, file_size : 0..MaxEntrySize]

IsTraversal(file_path) == StartsWith(file_path, <<"/">>) \/ Contains(file_path, <<".", ".">>)

HasAllowedType(file_path, allowed) == \E ext \in allowed : EndsWith(Lower(file_path), ext)

\* The loop of lines 122-128: per entry, traversal first, then extension.
RECURSIVE NameCheck(_, _, _)
NameCheck(entries, i, pol) ==
    IF i > Len(entries) THEN "ok"
    ELSE IF IsTraversal(entries[i].filename) THEN "traversal"
    ELSE IF ~HasAllowedType(entries[i].filename, AllowedTypes) THEN "extension"
    ELSE NameCheck(entries, i + 1, pol)

SizeCheck(entries, pol) ==
    IF \E i \in 1..Len(entries) : entries[i].file_size > pol.max_file_size
    THEN "file_size" ELSE "ok"

M_RatioCheck(entries, compressed, pol) == "ok"

\* ratio = uncompressed_size / compressed_size; ratio > max_ratio, taken only
\* when compressed_size > 0 (integers: u / c > r  <=>  u > r * c).
RatioCheck(entries, compressed, pol) ==
    IF compressed > 0 /\ SumSizes(entries, 1) > pol.max_ratio * compressed
    THEN "ratio" ELSE "ok"

CountCheck(entries, pol) ==
    IF Len(entries) > pol.max_files THEN "too_many_files" ELSE "ok"

\* The checks of secure_extract_zip in the order the code runs them; the
\* result is the first one that raises, "ok" when none does.
ArchiveCheck(entries, compressed, pol) ==
    IF CountCheck(entries, pol) # "ok" THEN CountCheck(entries, pol)
    ELSE IF RatioCheck(entries, compressed, pol) # "ok" THEN RatioCheck(entries, compressed, pol)
    ELSE IF SizeCheck(entries, pol) # "ok" THEN SizeCheck(entries, pol)
    ELSE NameCheck(entries, 1, pol)

M_ValidateFileOk(entry, pol) == TRUE

\* validate_file on an extracted entry: the size limit of file_validation.
ValidateFileOk(entry, pol) == entry.file_size <= pol.max_size

ZipInit ==
    /\ zipEntries \in SeqsUpTo(Entries, MaxEntries)
    /\ zipCompressed \in 0..MaxCompressed
    /\ zipPolicy \in Policies
    /\ zipPc = "start"
    /\ zipIdx = 1
    /\ destDir = {}
    /\ extracted_files = <<>>
    /\ zipError = "none"

\* Lines 89-128: every check, before the extraction loop is entered.
ZipValidate ==
    /\ zipPc = "start"
    /\ LET r == ArchiveCheck(zipEntries, zipCompressed, zipPolicy) IN
         IF r = "ok"
         THEN /\ zipPc' = "extract"
              /\ zipError' = zipError
         ELSE /\ zipPc' = "raised"
              /\ zipError' = r
    /\ UNCHANGED <<zipEntries, zipCompressed, zipPolicy, zipIdx, destDir, extracted_files>>

\* Lines 132-143, one entry: extract it, then validate_file it. Nothing is
\* removed when a step raises: the except clause of lines 147-149 logs and
\* re-raises.
\* io is the outcome of the library calls: zip_ref.extract may fail, leaving
\* the target written or not; os.path.getsize/magic.from_file may fail.
\* os.path.isfile (line 140) holds for every entry that gets here: a
\* directory entry ends with '/' and fails the extension test of line 127.
ZipExtractEntry ==
    /\ zipPc = "extract"
    /\ zipIdx <= Len(zipEntries)
    /\ LET e == zipEntries[zipIdx] IN
       \E io \in {"ok", "extract_failed_partial", "extract_failed_clean", "validate_io_error"} :
         CASE io = "extract_failed_partial" ->
                /\ destDir' = destDir \cup {e.filename}
                /\ zipPc' = "raised"
                /\ zipError' = "extract"
                /\ UNCHANGED <<zipIdx, extracted_files>>
           [] io = "extract_failed_clean" ->
                /\ destDir' = destDir
                /\ zipPc' = "raised"
                /\ zipError' = "extract"
                /\ UNCHANGED <<zipIdx, extracted_files>>
           [] io = "validate_io_error" ->
                /\ destDir' = destDir \cup {e.filename}
                /\ zipPc' = "raised"
                /\ zipError' = "validate_file"
                /\ UNCHANGED <<zipIdx, extracted_files>>
           [] OTHER ->
                IF ValidateFileOk(e, zipPolicy)
                THEN /\ destDir' = destDir \cup {e.filename}
                     /\ extracted_files' = Append(extracted_files, e.filename)
                     /\ zipIdx' = zipIdx + 1
                     /\ UNCHANGED <<zipPc, zipError>>
                ELSE /\ destDir' = destDir \cup {e.filename}
                     /\ zipPc' = "raised"
                     /\ zipError' = "validate_file"
                     /\ UNCHANGED <<zipIdx, extracted_files>>
    /\ UNCHANGED <<zipEntries, zipCompressed, zipPolicy>>

\* Line 145: return extracted_files.
ZipReturn ==
    /\ zipPc = "extract"
    /\ zipIdx > Len(zipEntries)
    /\ zipPc' = "returned"
    /\ UNCHANGED <<zipEntries, zipCompressed, zipPolicy, zipIdx, destDir,
                   extracted_files, zipError>>


(***************************************************************************)
(*                            FileHashTracker                              *)
(***************************************************************************)
MaxContent == 2

\* REFERENCE_FILE_PATTERNS, each 'prefix*suffix' as [pre, suf].
REFERENCE_FILE_PATTERNS ==
    { [pre |-> <<"r","e","f","e","r","e","n","c","e","_">>, suf |-> <<".","x","m","l">>],
      [pre |-> <<"r","e","f","_">>,                         suf |-> <<".","x","m","l">>],
      [pre |-> <<>>, suf |-> <<"_","r","e","f","e","r","e","n","c","e",".","x","m","l">>],
      [pre |-> <<"r","e","f","e","r","e","n","c","e","_">>, suf |-> <<".","j","s","o","n">>],
      [pre |-> <<"r","e","f","_">>,                         suf |-> <<".","j","s","o","n">>],
      [pre |-> <<>>, suf |-> <<"_","r","e","f","e","r","e","n","c","e",".","j","s","o","n">>] }

RefA == <<"r","e","f","_","a",".","x","m","l">>      \* ref_a.xml
DataX == <<"d","a","t","a",".","x","m","l">>         \* data.xml
RefBare == <<"r","e","f",".","x","m","l">>           \* ref.xml (no '_': matches nothing)

\* The files of the model: two directories hold a file named ref_a.xml.
TrkPaths ==
    { [dir |-> "d1", name |-> RefA], [dir |-> "d2", name |-> RefA],
      [dir |-> "d1", name |-> DataX], [dir |-> "d1", name |-> RefBare] }

\* A file is unreadable (0, open() raises IOError) or holds content 1..MaxContent.
Unreadable == 0
Contents == 0..MaxContent

\* fnmatch of a name without '/' against 'prefix*suffix'.
GlobMatch(name, pat) ==
    /\ Len(name) >= Len(pat.pre) + Len(pat.suf)
    /\ StartsWith(name, pat.pre)
    /\ EndsWith(name, pat.suf)

is_reference_file(path) == \E pat \in REFERENCE_FILE_PATTERNS : GlobMatch(path.name, pat)

\* sha256 of the content, '' when the file cannot be read; sha256 is taken
\* to be collision-free.
calculate_file_hash(fs, path) ==
    IF fs[path] = Unreadable THEN <<>> ELSE <<"sha256", fs[path]>>

MapPut(m, k, v) == [x \in DOMAIN m \cup {k} |-> IF x = k THEN v ELSE m[x]]

EmptyMap == [x \in {} |-> <<>>]

\* _load_hashes: the stored object, {} when the file is absent or not JSON.
LoadHashes(cache) == IF cache.state = "ok" THEN cache.map ELSE EmptyMap

\* _save_hashes: open(path, 'w') and json.dump; an IOError is logged and
\* swallowed. io: "ok", "open_failed" (file untouched) or "write_failed"
\* (file truncated by open, dump incomplete).
SaveHashes(cache, hashes, io) ==
    CASE io = "ok" -> [state |-> "ok", map |-> hashes]
      [] io = "open_failed" -> cache
      [] OTHER -> [state |-> "corrupt", map |-> EmptyMap]

M_needs_processing(hashes, fs, path) ==
    IF ~is_reference_file(path) THEN TRUE
    ELSE path.name \notin DOMAIN hashes

needs_processing(hashes, fs, path) ==
    IF ~is_reference_file(path) THEN TRUE
    ELSE \/ path.name \notin DOMAIN hashes
         \/ hashes[path.name] # calculate_file_hash(fs, path)

M_MarkedHashes(hashes, fs, path) == MapPut(hashes, path.name, calculate_file_hash(fs, path))

\* The map mark_processed leaves in self.file_hashes.
MarkedHashes(hashes, fs, path) ==
    IF ~is_reference_file(path) THEN hashes
    ELSE MapPut(hashes, path.name, calculate_file_hash(fs, path))

NoCall == [op |-> "none", path |-> [dir |-> "d1", name |-> DataX], result |-> FALSE,
           hashesBefore |-> EmptyMap, cacheBefore |-> [state |-> "absent", map |-> EmptyMap]]

NotMarked == [marked |-> FALSE, content |-> 0]

\* Side-files a tracker may find at construction.
InitialCaches ==
    { [state |-> "absent", map |-> EmptyMap],
      [state |-> "ok", map |-> EmptyMap],
      [state |-> "ok", map |-> MapPut(EmptyMap, RefA, <<"sha256", 1>>)],
      [state |-> "ok", map |-> MapPut(EmptyMap, DataX, <<"sha256", 1>>)],
      [state |-> "corrupt", map |-> EmptyMap] }

TrkInit ==
    /\ cacheFile \in InitialCaches
    /\ file_hashes = LoadHashes(cacheFile)
    /\ fsContent \in [TrkPaths -> Contents]
    /\ trkCall = NoCall
    /\ markedAs = [p \in TrkPaths |-> NotMarked]

TrkNeedsProcessing(path) ==
    /\ trkCall' = [op |-> "needs_processing", path |-> path,
                   result |-> needs_processing(file_hashes, fsContent, path),
                   hashesBefore |-> file_hashes, cacheBefore |-> cacheFile]
    /\ UNCHANGED <<file_hashes, cacheFile, fsContent, markedAs>>

TrkMarkProcessed(path) ==
    /\ file_hashes' = MarkedHashes(file_hashes, fsContent, path)
    /\ IF is_reference_file(path)
       THEN /\ \E io \in {"ok", "open_failed", "write_failed"} :
                 cacheFile' = SaveHashes(cacheFile, file_hashes', io)
            /\ markedAs' = [p \in TrkPaths |->
                              IF p = path THEN [marked |-> TRUE, content |-> fsContent[path]]
                              ELSE IF p.name = path.name THEN NotMarked
                              ELSE markedAs[p]]
       ELSE UNCHANGED <<cacheFile, markedAs>>
    /\ trkCall' = [op |-> "mark_processed", path |-> path, result |-> FALSE,
                   hashesBefore |-> file_hashes, cacheBefore |-> cacheFile]
    /\ UNCHANGED fsContent

TrkClearCache ==
    /\ file_hashes' = EmptyMap
    /\ \E io \in {"ok", "open_failed", "write_failed"} :
         cacheFile' = SaveHashes(cacheFile, file_hashes', io)
    /\ markedAs' = [p \in TrkPaths |-> NotMarked]
    /\ trkCall' = [NoCall EXCEPT !.op = "clear_cache"]
    /\ UNCHANGED fsContent

\* The process stops inside _save_hashes, called by mark_processed or
\* clear_cache with the in-memory map already set to `written`: before
\* open(path, 'w') (side-file untouched), after it (side-file truncated or
\* partly written), or after json.dump completed.
TrkStopInSave(written) ==
    /\ trkCall.op # "stopped"
    /\ file_hashes' = written
    /\ \E point \in {"open_failed", "write_failed", "ok"} :
         cacheFile' = SaveHashes(cacheFile, written, point)
    /\ trkCall' = [op |-> "stopped", path |-> NoCall.path, result |-> FALSE,
                   hashesBefore |-> file_hashes, cacheBefore |-> cacheFile,
                   written |-> written]
    /\ markedAs' = [p \in TrkPaths |-> NotMarked]
    /\ UNCHANGED fsContent

\* A tracker constructed after the stop: __init__ loads the side-file.
TrkRestart ==
    /\ trkCall.op = "stopped"
    /\ file_hashes' = LoadHashes(cacheFile)
    /\ trkCall' = [trkCall EXCEPT !.op = "restarted"]
    /\ UNCHANGED <<cacheFile, fsContent, markedAs>>

\* The environment rewrites, removes or restores a file.
TrkModifyFile(path) ==
    /\ \E c \in Contents \ {fsContent[path]} :
         fsContent' = [fsContent EXCEPT ![path] = c]
    /\ trkCall' = [NoCall EXCEPT !.op = "modify"]
    /\ UNCHANGED <<file_hashes, cacheFile, markedAs>>


(***************************************************************************)
(*                          Values and records                             *)
(***************************************************************************)
\* A Python value: None, an int, a str (sequence of characters) or the
\* datetime of the timestamp stamp.
Null == [k |-> "null", n |-> 0, s |-> <<>>, items |-> <<>>]
IntV(i) == [k |-> "int", n |-> i, s |-> <<>>, items |-> <<>>]
StrV(str) == [k |-> "str", n |-> 0, s |-> str, items |-> <<>>]
Now == [k |-> "datetime", n |-> 0, s |-> <<>>, items |-> <<>>]

\* Python truthiness: None, 0, 0.0, False, '' and [] are falsy.
Truthy(v) ==
    \/ v.k = "int" /\ v.n # 0
    \/ v.k = "str" /\ v.s # <<>>
    \/ v.k = "datetime"
    \/ v.k = "bool" /\ v.n = 1
    \/ v.k = "float" /\ (v.n # 0 \/ v.s # <<>>)
    \/ v.k = "list" /\ v.items # <<>>
    \/ v.k = "date"

\* a or b
PyOr(a, b) == IF Truthy(a) THEN a ELSE b

\* d.get(key)
Get(d, key) == IF key \in DOMAIN d THEN d[key] ELSE Null

EmptyRecord == [x \in {} |-> Null]

RECURSIVE Strip(_)
Strip(str) ==
    IF str = <<>> THEN str
    ELSE IF Head(str) = " " THEN Strip(Tail(str))
    ELSE IF str[Len(str)] = " " THEN Strip(SubSeq(str, 1, Len(str) - 1))
    ELSE str

Digits == <<"0", "1", "2", "3", "4", "5", "6", "7", "8", "9">>

IsDigit(c) == \E d \in 1..10 : Digits[d] = c

DigitVal(c) == (CHOOSE d \in 1..10 : Digits[d] = c) - 1

RECURSIVE DigitsToInt(_, _)
DigitsToInt(str, acc) ==
    IF str = <<>> THEN acc ELSE DigitsToInt(Tail(str), 10 * acc + DigitVal(Head(str)))

\* float(value) succeeds: the model's strings are plain digit strings or
\* non-numeric text.
IsNumeric(str) == str # <<>> /\ \A i \in 1..Len(str) : IsDigit(str[i])

RECURSIVE IntToStr(_)
IntToStr(i) ==
    IF i < 10 THEN <<Digits[i + 1]>> ELSE IntToStr(i \div 10) \o <<Digits[(i % 10) + 1]>>

\* convert_field for the field types 'string' and 'integer'.
convert_field(value, field_type) ==
    IF value.k = "null" THEN Null
    ELSE IF value.k = "str" /\ Strip(value.s) = <<>> THEN Null
    ELSE LET v == IF value.k = "str" THEN StrV(Strip(value.s)) ELSE value IN
         CASE field_type = "string" ->
                IF ~Truthy(v) THEN Null
                ELSE IF v.k = "int" THEN StrV(IntToStr(v.n)) ELSE v
           [] field_type = "integer" ->
                IF v.k = "str"
                THEN IF IsNumeric(v.s) THEN IntV(DigitsToInt(v.s, 0)) ELSE Null
                ELSE v
           [] OTHER -> v

(***************************************************************************)
(*                          ReferenceProcessor                             *)
(***************************************************************************)
MaxRecords == 2

TypesT == <<"t", "y", "p", "e", "s">>
ItemsT == <<"i", "t", "e", "m", "s">>

NoLookup == [table |-> <<>>, query |-> "none"]

\* get_field_mapping(import_type, file_name): the mapping of each file the
\* configuration knows. types.xml fills the lookup table types; items.json
\* refers to it by code.
FieldMapping(f) ==
    CASE f \in {"types.xml", "ref_a.xml"} ->
           [table |-> TypesT,
            fields |-> << [key |-> "id", db_field |-> "id", type |-> "integer", lookup |-> NoLookup],
                          [key |-> "code", db_field |-> "code", type |-> "string", lookup |-> NoLookup],
                          [key |-> "label", db_field |-> "label", type |-> "string", lookup |-> NoLookup],
                          [key |-> "parent", db_field |-> "parent_id", type |-> "integer",
                           lookup |-> [table |-> TypesT, query |-> "id_by_code"]] >>]
      \* a JSON mapping without its 'table' key
      [] f = "notable.json" ->
           [fields |-> << [key |-> "id", db_field |-> "id", type |-> "integer", lookup |-> NoLookup],
                          [key |-> "type", db_field |-> "type_id", type |-> "integer",
                           lookup |-> [table |-> TypesT, query |-> "id_by_code"]] >>]
      \* an XML mapping whose lookup rule has no 'query' key
      [] f = "noquery.xml" ->
           [table |-> TypesT,
            fields |-> << [key |-> "id", db_field |-> "id", type |-> "integer", lookup |-> NoLookup],
                          [key |-> "code", db_field |-> "code", type |-> "string", lookup |-> NoLookup],
                          [key |-> "parent", db_field |-> "parent_id", type |-> "integer",
                           lookup |-> [table |-> TypesT]] >>]
      \* tags.json refers to the lookup table types by label
      [] f = "tags.json" ->
           [table |-> ItemsT,
            fields |-> << [key |-> "id", db_field |-> "id", type |-> "integer", lookup |-> NoLookup],
                          [key |-> "type", db_field |-> "type_id", type |-> "integer",
                           lookup |-> [table |-> TypesT, query |-> "id_by_label"]] >>]
      \* an XML mapping with neither 'tables' nor 'table'
      [] f = "notable.xml" ->
           [fields |-> << [key |-> "id", db_field |-> "id", type |-> "integer", lookup |-> NoLookup] >>]
      [] OTHER ->
           [table |-> ItemsT,
            fields |-> << [key |-> "id", db_field |-> "id", type |-> "integer", lookup |-> NoLookup],
                          [key |-> "type", db_field |-> "type_id", type |-> "integer",
                           lookup |-> [table |-> TypesT, query |-> "id_by_code"]],
                          [key |-> "name", db_field |-> "name", type |-> "string", lookup |-> NoLookup] >>]

MappedFiles == {"types.xml", "items.json", "notes.txt", "ref_a.xml", "notable.json",
                "noquery.xml", "notable.xml", "tags.json"}

\* Path(file_path).suffix.lower()
Suffix(f) ==
    CASE f \in {"types.xml", "missing.xml", "ref_a.xml", "noquery.xml", "notable.xml"} -> ".xml"
      [] f \in {"items.json", "extra.json", "notable.json", "tags.json"} -> ".json"
      [] OTHER -> ".txt"

Src(pairs) == [k \in {p[1] : p \in pairs} |-> (CHOOSE p \in pairs : p[1] = k)[2]]

\* Elements a types file may hold (element name -> text).
XmlRecords ==
    { Src({<<"id", StrV(<<"1">>)>>, <<"code", StrV(<<"B">>)>>}),
      Src({<<"label", StrV(<<"x">>)>>}),
      EmptyRecord,
      Src({<<"id", StrV(<<"2">>)>>, <<"code", StrV(<<"C">>)>>, <<"parent", StrV(<<"B">>)>>}) }

\* Objects an items file may hold (key -> JSON value).
JsonRecords ==
    { Src({<<"id", IntV(2)>>, <<"type", StrV(<<"B">>)>>}),
      Src({<<"type", StrV(<<"A">>)>>, <<"name", StrV(<<"n">>)>>}) }

\* Rows the database holds before the run: types knows code A as id 7.
InitialRows ==
    << [file |-> 0, rec |-> 1, table |-> TypesT,
        values |-> Src({<<"id", IntV(7)>>, <<"code", StrV(<<"A">>)>>})] >>

\* cache_key = f"{table}:{value}"
CacheKey(table, value) == table \o <<":">> \o value

\* SELECT id FROM {table} WHERE {column} = :value on the rows the session
\* sees (committed and its own uncommitted ones): .scalar() of the row
\* written last.
RECURSIVE SelectId(_, _, _, _)
SelectId(rows, table, column, value) ==
    IF rows = <<>> THEN Null
    ELSE LET r == rows[Len(rows)] IN
         IF r.table = table /\ Get(r.values, column) = StrV(value)
         THEN Get(r.values, "id")
         ELSE SelectId(SubSeq(rows, 1, Len(rows) - 1), table, column, value)

\* session.execute(text(query.format(table=table)), {'value': value}).scalar()
\* for the templates of the configuration: id_by_code is
\* SELECT id FROM {table} WHERE code = :value, id_by_label the same on label.
LookupQuery(rows, lk, value) ==
    SelectId(rows, lk.table, IF lk.query = "id_by_label" THEN "label" ELSE "code", value)

\* One entry of the log of _perform_lookup calls. kind: "hit" (served from
\* the cache), "query" (the query ran) or "failed" (session.execute raised).
Call(st, lk, value, kind) ==
    [file |-> st.file, table |-> lk.table, query |-> lk.query, value |-> value, kind |-> kind]

M_perform_lookup(st, rows, lk, value, fails) ==
    LET key == CacheKey(lk.table, value) IN
      IF key \in DOMAIN st.cache /\ st.cache[key] # Null
      THEN [st EXCEPT !.result = st.cache[key],
                      !.calls = Append(@, Call(st, lk, value, "hit"))]
      ELSE IF fails
      THEN [st EXCEPT !.result = Null,
                      !.calls = Append(@, Call(st, lk, value, "failed"))]
      ELSE LET res == LookupQuery(rows, lk, value) IN
           [st EXCEPT !.result = res,
                      !.cache = MapPut(@, key, res),
                      !.calls = Append(@, Call(st, lk, value, "query"))]

M_perform_lookup_caching_failure(st, rows, lk, value, fails) ==
    LET key == CacheKey(lk.table, value) IN
      IF key \in DOMAIN st.cache
      THEN [st EXCEPT !.result = st.cache[key],
                      !.calls = Append(@, Call(st, lk, value, "hit"))]
      ELSE IF fails
      THEN [st EXCEPT !.result = Null,
                      !.cache = MapPut(@, key, Null),
                      !.calls = Append(@, Call(st, lk, value, "failed"))]
      ELSE LET res == LookupQuery(rows, lk, value) IN
           [st EXCEPT !.result = res,
                      !.cache = MapPut(@, key, res),
                      !.calls = Append(@, Call(st, lk, value, "query"))]

\* _perform_lookup: st carries the cache, the log of calls and, in result,
\* what the call returns. fails: session.execute raises.
perform_lookup(st, rows, lk, value, fails) ==
    LET key == CacheKey(lk.table, value) IN
      IF key \in DOMAIN st.cache
      THEN [st EXCEPT !.result = st.cache[key],
                      !.calls = Append(@, Call(st, lk, value, "hit"))]
      ELSE IF fails
      THEN [st EXCEPT !.result = Null,
                      !.calls = Append(@, Call(st, lk, value, "failed"))]
      ELSE LET res == LookupQuery(rows, lk, value) IN
           [st EXCEPT !.result = res,
                      !.cache = MapPut(@, key, res),
                      !.calls = Append(@, Call(st, lk, value, "query"))]

\* One field of the XML loop (lines 147-176).
XmlField(st, rows, elem, fc, fails) ==
    IF ~(fc.key \in DOMAIN elem /\ Truthy(elem[fc.key])) THEN st
    ELSE LET value == Strip(elem[fc.key].s) IN
         IF fc.lookup # NoLookup /\ ~({"table", "query"} \subseteq DOMAIN fc.lookup)
         THEN [st EXCEPT !.error = "config"]
         ELSE IF fc.lookup # NoLookup
         THEN LET st2 == perform_lookup(st, rows, fc.lookup, value, fails) IN
              [st2 EXCEPT !.data = MapPut(@, fc.db_field, st2.result)]
         ELSE LET converted == convert_field(StrV(value), fc.type) IN
              IF converted # Null
              THEN [st EXCEPT !.data = MapPut(@, fc.db_field, converted)]
              ELSE st

\* str(value) of a JSON value
PyStr(v) == IF v.k = "int" THEN IntToStr(v.n) ELSE v.s

\* One field of the JSON loop (lines 218-238).
JsonField(st, rows, record, fc, fails) ==
    IF Get(record, fc.key) = Null THEN st
    ELSE LET value == record[fc.key] IN
         IF fc.lookup # NoLookup /\ ~({"table", "query"} \subseteq DOMAIN fc.lookup)
         THEN [st EXCEPT !.error = "config"]
         ELSE IF fc.lookup # NoLookup
         THEN LET st2 == perform_lookup(st, rows, fc.lookup, PyStr(value), fails) IN
              IF st2.result # Null
              THEN [st2 EXCEPT !.data = MapPut(@, fc.db_field, st2.result)]
              ELSE st2
         ELSE LET converted == convert_field(value, fc.type) IN
              IF converted # Null
              THEN [st EXCEPT !.data = MapPut(@, fc.db_field, converted)]
              ELSE st

\* The field loop over mapping['fields'].items(), in mapping order; a
\* KeyError on lookup_config['table'] or ['query'] (st.error) ends it.
RECURSIVE FieldLoop(_, _, _, _, _, _, _)
FieldLoop(ext, st, rows, record, fields, i, fails) ==
    IF i > Len(fields) \/ st.error # "none" THEN st
    ELSE FieldLoop(ext,
                   IF ext = ".xml" THEN XmlField(st, rows, record, fields[i], fails)
                                   ELSE JsonField(st, rows, record, fields[i], fails),
                   rows, record, fields, i + 1, fails)

\* Lines 179-183 / 241-245: stamp created and modified when absent.
Stamp(data) ==
    LET d1 == IF "created" \in DOMAIN data THEN data ELSE MapPut(data, "created", Now) IN
      IF "modified" \in DOMAIN d1 THEN d1 ELSE MapPut(d1, "modified", Now)

\* primary_key = data.get('id') or data.get('code')
PrimaryKey(data) == PyOr(Get(data, "id"), Get(data, "code"))

M_IssuesStatement(data) == TRUE

\* _save_record sends a statement (line 261: primary_key is not None).
IssuesStatement(data) == PrimaryKey(data) # Null

\* values = {k: v for k, v in data.items() if v is not None}
NonNull(data) == [k \in {c \in DOMAIN data : data[c] # Null} |-> data[k]]

\* Configured orders of the model. missing.xml is never on disk, notes.txt
\* has a mapping but a type _process_file does not support.
Orders ==
    { <<"types.xml", "items.json">>,
      <<"items.json", "missing.xml", "types.xml">>,
      <<"types.xml", "notes.txt", "items.json">> }

NoSave == [called |-> FALSE, src |-> EmptyRecord, data |-> EmptyRecord, issued |-> FALSE,
           outcome |-> "none"]

\* The state at the entry of process_reference_files, for the configured
\* orders `orders`, the files `present` that may be in temp_dir and the
\* values `forces` of force_process.
RefInitWith(orders, present, forces) ==
    /\ refOrder \in orders
    /\ onDisk \in {S \cup {"extra.json", "notes.txt"} : S \in SUBSET present}
    /\ force_process \in forces
    /\ refPc = "loop"
    /\ fileIdx = 1
    /\ recIdx = 1
    /\ pendingRows = <<>>
    /\ committedRows = InitialRows
    /\ stmtLog = <<>>
    /\ commitLog = <<>>
    /\ rollbacks = 0
    /\ processed_files = <<>>
    /\ skipped_files = <<>>
    /\ lookup_cache = EmptyMap
    /\ queryLog = <<>>
    /\ lastSave = NoSave
    /\ refFailure = "none"

RefInit == RefInitWith(Orders, {"types.xml", "items.json"}, {FALSE})

M_RaiseRun(n, why) ==
    /\ pendingRows' = pendingRows
    /\ rollbacks' = rollbacks
    /\ refPc' = "raised"
    /\ refFailure' = why

\* An exception leaves process_reference_files: n rollbacks are issued on
\* the way out (handle_error of _process_file, line 56, handle_error of
\* line 66) and the open transaction is discarded.
RaiseRun(n, why) ==
    /\ pendingRows' = <<>>
    /\ rollbacks' = rollbacks + n
    /\ refPc' = "raised"
    /\ refFailure' = why

\* The mutant of RefSkipFile that commits before it continues.
M_RefSkipFileCommitting ==
    /\ refPc = "loop"
    /\ fileIdx <= Len(refOrder)
    /\ refOrder[fileIdx] \notin onDisk
    /\ skipped_files' = Append(skipped_files, refOrder[fileIdx])
    /\ commitLog' = Append(commitLog, [file |-> fileIdx, ok |-> TRUE])
    /\ fileIdx' = fileIdx + 1
    /\ lastSave' = NoSave
    /\ UNCHANGED <<refOrder, onDisk, refPc, recIdx, pendingRows, committedRows, stmtLog,
                   rollbacks, processed_files, lookup_cache, queryLog, refFailure>>

M_RefSkipFile ==
    /\ refPc = "loop"
    /\ fileIdx <= Len(refOrder)
    /\ refOrder[fileIdx] \notin onDisk
    /\ fileIdx' = fileIdx + 1
    /\ lastSave' = NoSave
    /\ UNCHANGED <<refOrder, onDisk, refPc, recIdx, pendingRows, committedRows, stmtLog,
                   commitLog, rollbacks, processed_files, lookup_cache, queryLog, refFailure,
                   skipped_files>>

\* Lines 59-61: the file is not in temp_dir.
RefSkipFile ==
    /\ refPc = "loop"
    /\ fileIdx <= Len(refOrder)
    /\ refOrder[fileIdx] \notin onDisk
    /\ skipped_files' = Append(skipped_files, refOrder[fileIdx])
    /\ fileIdx' = fileIdx + 1
    /\ lastSave' = NoSave
    /\ UNCHANGED <<refOrder, onDisk, refPc, recIdx, pendingRows, committedRows, stmtLog,
                   commitLog, rollbacks, processed_files, lookup_cache, queryLog, refFailure>>

\* Lines 42-45, 96-109 and 120 / 204-205: _process_file is entered, the
\* mapping fetched, the type dispatched and the file parsed.
RefBeginFile ==
    /\ refPc = "loop"
    /\ fileIdx <= Len(refOrder)
    /\ refOrder[fileIdx] \in onDisk
    /\ LET f == refOrder[fileIdx] IN
       \E parse \in {"ok", "parse_error"} :
         IF f \notin MappedFiles
         THEN RaiseRun(3, "no_mapping") /\ UNCHANGED recIdx
         ELSE IF Suffix(f) \notin {".xml", ".json"}
         THEN RaiseRun(3, "unsupported_type") /\ UNCHANGED recIdx
         ELSE IF parse = "parse_error"
         THEN RaiseRun(3, "parse_error") /\ UNCHANGED recIdx
         \* line 126: mapping['table'] / mapping['fields'] of an XML mapping
         ELSE IF Suffix(f) = ".xml" /\ ~({"table", "fields"} \subseteq DOMAIN FieldMapping(f))
         THEN RaiseRun(3, "config_error") /\ UNCHANGED recIdx
         ELSE /\ refPc' = "records"
              /\ recIdx' = 1
              /\ UNCHANGED <<pendingRows, rollbacks, refFailure>>
    /\ lastSave' = NoSave
    /\ UNCHANGED <<refOrder, onDisk, fileIdx, committedRows, stmtLog, commitLog,
                   processed_files, skipped_files, lookup_cache, queryLog>>

\* _save_record's handling of an IntegrityError (lines 282-284): the
\* session is rolled back, the exception is logged and not raised again.
OnIntegrityError(pending) == [pending |-> <<>>, rollbacks |-> 1, raises |-> FALSE]

\* One element / object of the current file: the field loop, the stamps and
\* _save_record. lookupFails: session.execute raises inside _perform_lookup;
\* db: outcome of the INSERT ("ok", IntegrityError, another exception).
RefProcessRecord ==
    /\ refPc = "records"
    /\ recIdx <= MaxRecords
    /\ LET f == refOrder[fileIdx]
           mapping == FieldMapping(f)
       IN \E record \in (IF Suffix(f) = ".xml" THEN XmlRecords ELSE JsonRecords),
             lookupFails \in BOOLEAN, db \in {"ok", "integrity", "error"} :
            LET st == FieldLoop(Suffix(f),
                                [data |-> EmptyRecord, cache |-> lookup_cache,
                                 calls |-> queryLog, result |-> Null, file |-> fileIdx,
                                 error |-> "none"],
                                committedRows \o pendingRows, record, mapping.fields, 1,
                                lookupFails)
                data == Stamp(st.data)
                stmt == [file |-> fileIdx, rec |-> recIdx, table |-> mapping.table,
                         values |-> NonNull(data)]
            IN /\ lookup_cache' = st.cache
               /\ queryLog' = st.calls
               /\ IF st.error # "none" \/ "table" \notin DOMAIN mapping
                  \* KeyError in the field loop, or on mapping['table'] (line 249)
                  THEN /\ RaiseRun(3, "config_error")
                       /\ lastSave' = NoSave
                       /\ UNCHANGED <<recIdx, stmtLog>>
                  ELSE IF ~IssuesStatement(data)
                  THEN /\ recIdx' = recIdx + 1
                       /\ lastSave' = [called |-> TRUE, src |-> record, data |-> data,
                                       issued |-> FALSE, outcome |-> "none"]
                       /\ UNCHANGED <<stmtLog, pendingRows, rollbacks, refPc, refFailure>>
                  ELSE /\ stmtLog' = Append(stmtLog, [stmt |-> stmt, outcome |-> db])
                       /\ lastSave' = [called |-> TRUE, src |-> record, data |-> data,
                                       issued |-> TRUE, outcome |-> db]
                       /\ CASE db = "ok" ->
                                 /\ pendingRows' = Append(pendingRows, stmt)
                                 /\ recIdx' = recIdx + 1
                                 /\ UNCHANGED <<rollbacks, refPc, refFailure>>
                            [] db = "integrity" ->
                                 LET h == OnIntegrityError(pendingRows) IN
                                   IF h.raises
                                   THEN RaiseRun(h.rollbacks + 3, "integrity_error")
                                        /\ UNCHANGED recIdx
                                   ELSE /\ pendingRows' = h.pending
                                        /\ rollbacks' = rollbacks + h.rollbacks
                                        /\ recIdx' = recIdx + 1
                                        /\ UNCHANGED <<refPc, refFailure>>
                            [] OTHER ->
                                 RaiseRun(3, "save_error") /\ UNCHANGED recIdx
    /\ UNCHANGED <<refOrder, onDisk, fileIdx, committedRows, commitLog, processed_files,
                   skipped_files>>

\* Lines 48-53: the records of the file are exhausted; session.commit().
RefCommitFile ==
    /\ refPc = "records"
    /\ \E ok \in BOOLEAN :
         /\ commitLog' = Append(commitLog, [file |-> fileIdx, ok |-> ok])
         /\ IF ok
            THEN /\ committedRows' = committedRows \o pendingRows
                 /\ pendingRows' = <<>>
                 /\ processed_files' = Append(processed_files, refOrder[fileIdx])
                 /\ fileIdx' = fileIdx + 1
                 /\ refPc' = "loop"
                 /\ UNCHANGED <<rollbacks, refFailure>>
            ELSE /\ RaiseRun(2, "commit_error")
                 /\ UNCHANGED <<committedRows, processed_files, fileIdx>>
    /\ lastSave' = NoSave
    /\ UNCHANGED <<refOrder, onDisk, recIdx, stmtLog, skipped_files, lookup_cache, queryLog>>

\* Line 63: return processed_files, skipped_files.
RefReturn ==
    /\ refPc = "loop"
    /\ fileIdx > Len(refOrder)
    /\ refPc' = "returned"
    /\ lastSave' = NoSave
    /\ UNCHANGED <<refOrder, onDisk, fileIdx, recIdx, pendingRows, committedRows, stmtLog,
                   commitLog, rollbacks, processed_files, skipped_files, lookup_cache,
                   queryLog, refFailure>>

(***************************************************************************)
(*            _save_record against the row that has the record's key        *)
(***************************************************************************)
\* No row of the table has the record's id or code.
NoRow == EmptyRecord

\* A timestamp written by an earlier import.
Earlier == [k |-> "datetime", n |-> -1, s |-> <<>>, items |-> <<>>]

\* Stamped data dicts: id 1, id 0 (convert_field('0', 'integer')) or none,
\* code B or none, a label, and parent_id absent, None (XML lookup miss,
\* line 162) or resolved.
SaveDatas ==
    { Stamp(Src(S)) :
        S \in { I \cup C \cup L \cup P :
                  I \in {{}, {<<"id", IntV(1)>>}, {<<"id", IntV(0)>>}},
                  C \in {{}, {<<"code", StrV(<<"B">>)>>}},
                  L \in {{}, {<<"label", StrV(<<"y">>)>>}},
                  P \in {{}, {<<"parent_id", Null>>}, {<<"parent_id", IntV(9)>>}} } }

\* Rows the table may hold under id 1 / code B.
StoredRows ==
    { Src(K \cup L \cup P) :
        K \in {{<<"id", IntV(1)>>, <<"code", StrV(<<"B">>)>>,
                 <<"created", Earlier>>, <<"modified", Earlier>>}},
        L \in {{}, {<<"label", StrV(<<"x">>)>>}},
        P \in {{}, {<<"parent_id", IntV(7)>>}} }

\* INSERT INTO t (columns) VALUES (...) ON DUPLICATE KEY UPDATE c = VALUES(c)
\* for c in update_cols, on the row with the same key: without such a row
\* the values are inserted; with one, the listed columns are overwritten and
\* every other column keeps what it holds.
ExecUpsert(row, values, update_cols) ==
    IF row = NoRow THEN values
    ELSE [c \in DOMAIN row \cup update_cols |->
            IF c \in update_cols THEN values[c] ELSE row[c]]

SaveInit ==
    /\ saveData \in SaveDatas
    /\ storedRow \in StoredRows \cup {NoRow}
    /\ savePc = "ready"

\* _save_record(table_name, data, session), the statement succeeding: with
\* a primary key one session.execute and one session.flush (lines 279-280),
\* without one nothing (line 261).
SaveRecord ==
    /\ savePc = "ready"
    /\ savePc' = IF IssuesStatement(saveData) THEN "saved" ELSE "skipped"
    /\ LET values == NonNull(saveData)
           update_cols == DOMAIN values \ {"id", "code"}
       IN storedRow' = IF IssuesStatement(saveData)
                       THEN ExecUpsert(storedRow, values, update_cols)
                       ELSE storedRow
    /\ UNCHANGED saveData

UpIdle ==
    /\ storedRow = NoRow
    /\ saveData = EmptyRecord
    /\ savePc = "idle"

(***************************************************************************)
(*                 convert_field (utils/data_converter.py)                  *)
(***************************************************************************)
\* Longest generated input string.
MaxStr == 3

RECURSIVE Pow10(_)
Pow10(e) == IF e = 0 THEN 1 ELSE 10 * Pow10(e - 1)

\* A finite float is kept as the integer value * FloatScale, which is exact
\* for every literal of at most MaxStr characters.
FloatScale == Pow10(MaxStr)

BoolV(b) == [k |-> "bool", n |-> IF b THEN 1 ELSE 0, s |-> <<>>, items |-> <<>>]
FloatV(h) == [k |-> "float", n |-> h, s |-> <<>>, items |-> <<>>]
Inf == [k |-> "float", n |-> 0, s |-> <<"i", "n", "f">>, items |-> <<>>]
NaN == [k |-> "float", n |-> 0, s |-> <<"n", "a", "n">>, items |-> <<>>]
DateV(y, m, d) == [k |-> "date", n |-> 10000 * y + 100 * m + d, s |-> <<>>, items |-> <<>>]
\* a list of values
ListV(items) == [k |-> "list", n |-> 0, s |-> <<>>, items |-> items]

\* What a step of the conversion does: it yields a value or raises.
Ok(v) == [exc |-> "none", v |-> v]
Raise(e) == [exc |-> e, v |-> Null]

\* value.split(sep)
RECURSIVE SplitOn(_, _)
SplitOn(str, sep) ==
    IF \A i \in 1..Len(str) : str[i] # sep THEN <<str>>
    ELSE LET p == CHOOSE i \in 1..Len(str) :
                     str[i] = sep /\ \A j \in 1..(i - 1) : str[j] # sep
         IN <<SubSeq(str, 1, p - 1)>> \o SplitOn(SubSeq(str, p + 1, Len(str)), sep)

AllDigits(str) == \A i \in 1..Len(str) : IsDigit(str[i])

\* float(value) for a stripped string made of digits, a sign and a point,
\* or naming inf / nan; strings with an exponent or an underscore are not
\* among the inputs.
ParseFloat(str) ==
    LET signed == str # <<>> /\ Head(str) \in {"-", "+"}
        neg == str # <<>> /\ Head(str) = "-"
        body == IF signed THEN Tail(str) ELSE str
        parts == SplitOn(body, ".")
        ip == parts[1]
        fp == IF Len(parts) = 2 THEN parts[2] ELSE <<>>
        mag == DigitsToInt(ip, 0) * FloatScale
                 + DigitsToInt(fp, 0) * Pow10(MaxStr - Len(fp))
    IN IF Lower(body) \in {<<"i", "n", "f">>, <<"i", "n", "f", "i", "n", "i", "t", "y">>}
       THEN Ok(Inf)
       ELSE IF Lower(body) = <<"n", "a", "n">> THEN Ok(NaN)
       ELSE IF /\ Len(parts) <= 2
               /\ AllDigits(ip) /\ AllDigits(fp)
               /\ Len(ip) + Len(fp) >= 1
            THEN Ok(FloatV(IF neg THEN 0 - mag ELSE mag))
            ELSE Raise("ValueError")

\* The mutant of Trunc that rounds down.
M_Trunc(h) == h \div FloatScale

\* int(x) of a finite float: the fraction is dropped.
Trunc(h) == IF h >= 0 THEN h \div FloatScale ELSE 0 - ((0 - h) \div FloatScale)

\* int(float_val)
IntOfFloat(f) ==
    IF f = Inf THEN Raise("OverflowError")
    ELSE IF f = NaN THEN Raise("ValueError")
    ELSE Ok(IntV(Trunc(f.n)))

\* int(value) of a value that is not a string
PyInt(v) ==
    CASE v.k = "int" -> Ok(v)
      [] v.k = "bool" -> Ok(IntV(v.n))
      [] v.k = "float" -> IntOfFloat(v)
      [] OTHER -> Raise("TypeError")

\* float(value)
PyFloat(v) ==
    CASE v.k = "str" -> ParseFloat(v.s)
      [] v.k \in {"int", "bool"} -> Ok(FloatV(v.n * FloatScale))
      [] v.k = "float" -> Ok(v)
      [] OTHER -> Raise("TypeError")

\* The decimals of a float's text: the fraction without trailing zeros.
RECURSIVE Padded(_, _)
Padded(f, width) ==
    IF width = 0 THEN <<>> ELSE Padded(f \div 10, width - 1) \o <<Digits[(f % 10) + 1]>>

RECURSIVE FracDigits(_, _)
FracDigits(f, width) ==
    IF width > 1 /\ f % 10 = 0 THEN FracDigits(f \div 10, width - 1) ELSE Padded(f, width)

RECURSIVE Join(_, _)
Join(strs, sep) ==
    IF strs = <<>> THEN <<>>
    ELSE IF Len(strs) = 1 THEN strs[1]
    ELSE strs[1] \o sep \o Join(Tail(strs), sep)

\* str(value)
RECURSIVE Str(_)
Str(v) ==
    CASE v.k = "str" -> v.s
      [] v.k = "int" -> IF v.n < 0 THEN <<"-">> \o IntToStr(0 - v.n) ELSE IntToStr(v.n)
      [] v.k = "bool" -> IF v.n = 1 THEN <<"T", "r", "u", "e">>
                                    ELSE <<"F", "a", "l", "s", "e">>
      [] v.k = "float" ->
            IF v.s # <<>> THEN v.s
            ELSE LET mag == IF v.n < 0 THEN 0 - v.n ELSE v.n IN
                 (IF v.n < 0 THEN <<"-">> ELSE <<>>)
                   \o IntToStr(mag \div FloatScale) \o <<".">>
                   \o FracDigits(mag % FloatScale, MaxStr)
      [] v.k = "list" ->
            <<"[">>
              \o Join([i \in 1..Len(v.items) |->
                         IF v.items[i].k = "str" THEN <<"'">> \o v.items[i].s \o <<"'">>
                                                ELSE Str(v.items[i])],
                      <<",", " ">>)
              \o <<"]">>
      [] OTHER -> <<"N", "o", "n", "e">>

\* Line 58.
TrueTokens ==
    { <<"t", "r", "u", "e">>, <<"y", "e", "s">>, <<"1">>, <<"t">>, <<"y">> }

DaysIn(y, m) ==
    IF m = 2 THEN (IF y % 4 = 0 /\ (y % 100 # 0 \/ y % 400 = 0) THEN 29 ELSE 28)
    ELSE IF m \in {4, 6, 9, 11} THEN 30 ELSE 31

\* datetime(y, m, d) exists.
ValidDate(y, m, d) == y >= 1 /\ m \in 1..12 /\ d >= 1 /\ d <= DaysIn(y, m)

\* datetime.strptime(value, fmt) for a format of three directives among
\* %d, %m, %Y with one separator between them: the year takes four digits,
\* day and month one or two.
strptime(value, fmt) ==
    IF value.k # "str" THEN Raise("TypeError")
    ELSE
    LET parts == SplitOn(value.s, fmt[3])
        dirs == <<fmt[2], fmt[5], fmt[8]>>
        shaped == /\ Len(parts) = 3
                  /\ \A i \in 1..3 :
                        /\ AllDigits(parts[i])
                        /\ IF dirs[i] = "Y" THEN Len(parts[i]) = 4
                                            ELSE Len(parts[i]) \in 1..2
        at(dir) == DigitsToInt(parts[CHOOSE i \in 1..3 : dirs[i] = dir], 0)
    IN IF shaped /\ ValidDate(at("Y"), at("m"), at("d"))
       THEN Ok(DateV(at("Y"), at("m"), at("d")))
       ELSE Raise("ValueError")

DateSeparators == {"-", "/", "."}

\* dateutil's parser.parse(value) with its defaults (dayfirst=False,
\* yearfirst=False) on three numbers with one separator: a leading
\* four-digit number is the year and month, day follow; otherwise the year
\* is last and the first number is the month unless it exceeds 12, when it
\* is the day. Anything else of the model's inputs is not a date for it.
dateutil_parse(value) ==
    IF value.k # "str" THEN Raise("TypeError")
    ELSE
    LET seps == {c \in DateSeparators :
                    LET parts == SplitOn(value.s, c) IN
                      /\ Len(parts) = 3
                      /\ \A i \in 1..3 : parts[i] # <<>> /\ AllDigits(parts[i])}
    IN IF seps = {} THEN Raise("ValueError")
       ELSE LET parts == SplitOn(value.s, CHOOSE c \in seps : TRUE)
                a == DigitsToInt(parts[1], 0)
                b == DigitsToInt(parts[2], 0)
                c == DigitsToInt(parts[3], 0)
                ymd == IF Len(parts[1]) = 4 THEN <<a, b, c>>
                       ELSE IF a > 12 THEN <<c, b, a>>
                       ELSE <<c, a, b>>
            IN IF /\ Len(parts[1]) = 4 \/ Len(parts[3]) = 4
                  /\ ValidDate(ymd[1], ymd[2], ymd[3])
               THEN Ok(DateV(ymd[1], ymd[2], ymd[3]))
               ELSE Raise("ValueError")

Fmt(d1, sep, d2, d3) == <<"%", d1, sep, "%", d2, sep, "%", d3>>

\* formats_to_try of _parse_flexible_date
formats_to_try ==
    << Fmt("Y", "-", "m", "d"),
       Fmt("d", "-", "m", "Y"),
       Fmt("m", "-", "d", "Y"),
       Fmt("d", "/", "m", "Y"),
       Fmt("m", "/", "d", "Y"),
       Fmt("d", ".", "m", "Y"),
       Fmt("m", ".", "d", "Y") >>

\* The loop of lines 139-145: the first format that parses wins; a
\* TypeError of strptime is not caught by the loop.
RECURSIVE TryFormats(_, _)
TryFormats(value, i) ==
    IF i > Len(formats_to_try) THEN Raise("ValueError")
    ELSE LET r == strptime(value, formats_to_try[i]) IN
         IF r.exc = "ValueError" THEN TryFormats(value, i + 1) ELSE r

parse_flexible_date(value) ==
    LET r == dateutil_parse(value) IN
      IF r.exc = "none" THEN r ELSE TryFormats(value, 1)

\* A date as the datetime at its midnight.
AsDatetime(r) == IF r.exc = "none" THEN Ok([r.v EXCEPT !.k = "datetime"]) ELSE r

\* Every format of lines 160-167 ends in a time of day, and the model's
\* strings carry none: after dateutil the loop finds no format.
parse_flexible_datetime(value) ==
    LET r == dateutil_parse(value) IN
      IF r.exc = "none" THEN AsDatetime(r)
      ELSE IF value.k # "str" THEN Raise("TypeError")
      ELSE Raise("ValueError")

\* field_format=None
NoFormat == Null

\* The mutant of OuterCatches that catches ValueError only.
M_OuterCatches(exc) == exc = "ValueError"

\* Line 110: except Exception.
OuterCatches(exc) == exc \in {"ValueError", "TypeError", "OverflowError"}

\* What a call did: the value returned, the exception that left the call
\* ("none": it returned) and the levels it logged at, in order.
Returned(v, log) == [ret |-> v, raised |-> "none", log |-> log]

\* The body of the try block (lines 33-108): what it returns and logs, or
\* the exception that reaches line 110.
ConvertBody(value, field_type, field_format) ==
    CASE field_type = "string" ->
            Returned(IF Truthy(value) THEN StrV(Str(value)) ELSE Null, <<>>)
      [] field_type = "integer" ->
            IF value.k = "str"
            THEN LET f == ParseFloat(value.s)
                     i == IF f.exc = "none" THEN IntOfFloat(f.v) ELSE f
                 IN IF i.exc = "none" THEN Returned(i.v, <<>>)
                    ELSE IF i.exc = "ValueError" THEN Returned(Null, <<"error">>)
                    ELSE [ret |-> Null, raised |-> i.exc, log |-> <<>>]
            ELSE LET i == PyInt(value) IN
                 IF i.exc = "none" THEN Returned(i.v, <<>>)
                 ELSE [ret |-> Null, raised |-> i.exc, log |-> <<>>]
      [] field_type = "float" ->
            LET f == PyFloat(value) IN
              IF f.exc = "none" THEN Returned(f.v, <<>>)
              ELSE Returned(Null, <<"error">>)
      [] field_type = "boolean" ->
            IF value.k = "bool" THEN Returned(value, <<>>)
            ELSE Returned(BoolV(Lower(Strip(Str(value))) \in TrueTokens), <<>>)
      [] field_type \in {"date", "datetime"} ->
            LET isDate == field_type = "date"
                exact == IF Truthy(field_format)
                         THEN (IF isDate THEN strptime(value, field_format.s)
                                         ELSE AsDatetime(strptime(value, field_format.s)))
                         ELSE Raise("ValueError")
                warned == IF Truthy(field_format) THEN <<"warning">> ELSE <<>>
                flexible == IF isDate THEN parse_flexible_date(value)
                                      ELSE parse_flexible_datetime(value)
            IN IF exact.exc = "none" THEN Returned(exact.v, <<>>)
               ELSE IF exact.exc = "TypeError" THEN Returned(Null, <<"error">>)
               ELSE IF flexible.exc = "none" THEN Returned(flexible.v, warned)
               ELSE Returned(Null, warned \o <<"error">>)
      [] field_type = "array" ->
            IF value.k = "list" THEN Returned(value, <<>>)
            ELSE IF value.k # "str" \/ Strip(value.s) = <<>> THEN Returned(ListV(<<>>), <<>>)
            ELSE IF \E i \in 1..Len(value.s) : value.s[i] = ","
            THEN LET items == SplitOn(value.s, ",")
                     kept == SelectSeq(items, LAMBDA item : Strip(item) # <<>>)
                 IN Returned(ListV([i \in 1..Len(kept) |-> StrV(Strip(kept[i]))]), <<>>)
            ELSE Returned(ListV(<<value>>), <<>>)
      [] OTHER -> Returned(value, <<"warning">>)

\* convert_field(value, field_type, field_format): lines 23-30, then the
\* try block and its handler.
ConvertField(value, field_type, field_format) ==
    IF value.k = "null" THEN Returned(Null, <<>>)
    ELSE IF value.k = "str" /\ Strip(value.s) = <<>> THEN Returned(Null, <<>>)
    ELSE LET v == IF value.k = "str" THEN StrV(Strip(value.s)) ELSE value
             body == ConvertBody(v, field_type, field_format)
         IN IF body.raised # "none" /\ OuterCatches(body.raised)
            THEN Returned(Null, body.log \o <<"error">>)
            ELSE body

\* ---- the calls of the model ----
\* Every string of at most MaxStr characters over a small alphabet, and
\* some words.
Strings ==
    SeqsUpTo({" ", "1", "-", ".", ",", "t", "T"}, MaxStr)
      \cup { <<"t", "r", "u", "e">>, <<"Y", "E", "S">>, <<"y">>, <<"n", "o">>, <<"0">>,
              <<"i", "n", "f">>, <<"n", "a", "n">>, <<"-", "1", ".", "9">>,
              <<"a", ",", " ", "b">> }

\* Values of other types, as a parsed JSON document holds them.
NonStrings ==
    { Null, IntV(0), IntV(5), BoolV(TRUE), BoolV(FALSE), FloatV(0),
      FloatV(5 * (FloatScale \div 2)), ListV(<<>>), ListV(<<StrV(<<"a">>)>>) }

TwoDigits == {<<"0", "2">>, <<"0", "4">>, <<"1", "3">>, <<"3", "1">>, <<"9", "9">>}

Year == <<"2", "0", "2", "5">>

\* Three numbers with one separator, the year last or (ISO) first, and a
\* text that is no date.
DateStrings ==
    { a \o <<c>> \o b \o <<c>> \o Year : a \in TwoDigits, b \in TwoDigits, c \in DateSeparators }
      \cup { Year \o <<"-">> \o a \o <<"-">> \o b : a \in TwoDigits, b \in TwoDigits }
      \cup { <<"i", "n", "v", "a", "l", "i", "d", "-", "d", "a", "t", "e">>, <<" ">> }

NoOut == [ret |-> Null, raised |-> "not called", log |-> <<>>]

CvInit ==
    /\ \/ /\ cvType \in {"string", "integer", "float", "boolean", "array", "uuid"}
          /\ cvValue \in {StrV(str) : str \in Strings} \cup NonStrings
          /\ cvFormat = NoFormat
       \/ /\ cvType \in {"date", "datetime"}
          /\ cvValue \in {StrV(str) : str \in DateStrings} \cup NonStrings
          /\ cvFormat \in { NoFormat, StrV(Fmt("d", "-", "m", "Y")),
                             StrV(Fmt("m", "/", "d", "Y")), StrV(Fmt("Y", "-", "m", "d")) }
    /\ cvOut = NoOut

\* One call convert_field(cvValue, cvType, cvFormat).
CvConvert ==
    /\ cvOut = NoOut
    /\ cvOut' = ConvertField(cvValue, cvType, cvFormat)
    /\ UNCHANGED <<cvValue, cvType, cvFormat>>

CvIdle ==
    /\ cvValue = Null
    /\ cvType = "none"
    /\ cvFormat = NoFormat
    /\ cvOut = NoOut

(***************************************************************************)
(*                           Specifications                                *)
(***************************************************************************)
ZipIdle ==
    /\ zipEntries = <<>>
    /\ zipCompressed = 0
    /\ zipPolicy \in {p \in Policies : p.max_files = 1}
    /\ zipPc = "idle"
    /\ zipIdx = 1
    /\ destDir = {}
    /\ extracted_files = <<>>
    /\ zipError = "none"

TrkIdle ==
    /\ cacheFile = [state |-> "absent", map |-> EmptyMap]
    /\ file_hashes = EmptyMap
    /\ fsContent = [p \in TrkPaths |-> Unreadable]
    /\ trkCall = NoCall
    /\ markedAs = [p \in TrkPaths |-> NotMarked]

RefIdle ==
    /\ refOrder = <<>>
    /\ onDisk = {}
    /\ force_process = FALSE
    /\ refPc = "idle"
    /\ fileIdx = 1
    /\ recIdx = 1
    /\ pendingRows = <<>>
    /\ committedRows = <<>>
    /\ stmtLog = <<>>
    /\ commitLog = <<>>
    /\ rollbacks = 0
    /\ processed_files = <<>>
    /\ skipped_files = <<>>
    /\ lookup_cache = EmptyMap
    /\ queryLog = <<>>
    /\ lastSave = NoSave
    /\ refFailure = "none"

zipElse == UNCHANGED <<trkVars, refVars, force_process, upVars, cvVars>>
trkElse == UNCHANGED <<zipVars, refVars, force_process, upVars, cvVars>>
refElse == UNCHANGED <<zipVars, trkVars, force_process, upVars, cvVars>>

\* secure_extract_zip on one archive.
InitZip == ZipInit /\ TrkIdle /\ RefIdle /\ UpIdle /\ CvIdle

NextZip ==
    \/ ZipValidate /\ zipElse
    \/ ZipExtractEntry /\ zipElse
    \/ ZipReturn /\ zipElse

SpecZip == InitZip /\ [][NextZip]_vars

\* A tracker whose process may stop while it saves, and its successor.
NextStop ==
    \/ \E path \in TrkPaths : trkCall.op # "stopped" /\ TrkMarkProcessed(path) /\ trkElse
    \/ trkCall.op # "stopped" /\ TrkClearCache /\ trkElse
    \/ \E path \in {p \in TrkPaths : is_reference_file(p)} :
          TrkStopInSave(MarkedHashes(file_hashes, fsContent, path)) /\ trkElse
    \/ TrkStopInSave(EmptyMap) /\ trkElse
    \/ TrkRestart /\ trkElse

\* One FileHashTracker instance and the files it is asked about.
InitTracker == TrkInit /\ ZipIdle /\ RefIdle /\ UpIdle /\ CvIdle

NextTracker ==
    \/ \E path \in TrkPaths : TrkNeedsProcessing(path) /\ trkElse
    \/ \E path \in TrkPaths : TrkMarkProcessed(path) /\ trkElse
    \/ TrkClearCache /\ trkElse
    \/ \E path \in TrkPaths : TrkModifyFile(path) /\ trkElse

SpecTracker == InitTracker /\ [][NextTracker]_vars

SpecStop == InitTracker /\ [][NextStop]_vars

\* One run of process_reference_files.
InitRef == RefInit /\ ZipIdle /\ TrkIdle /\ UpIdle /\ CvIdle

NextRef ==
    \/ RefSkipFile /\ refElse
    \/ RefBeginFile /\ refElse
    \/ RefProcessRecord /\ refElse
    \/ RefCommitFile /\ refElse
    \/ RefReturn /\ refElse

SpecRef == InitRef /\ [][NextRef]_vars

\* One run of process_reference_files on a processor whose tracker has
\* loaded its side-file; the order names a reference-pattern file.
GateOrders == { <<"ref_a.xml", "missing.xml", "items.json">> }

\* os.path.join(temp_dir, ref_file) as the tracker sees it: ref_a.xml
\* matches 'ref_*.xml', the other names of the orders match no pattern.
TrackedPath(f) ==
    IF f = "ref_a.xml" THEN [dir |-> "d1", name |-> RefA] ELSE [dir |-> "d1", name |-> DataX]

GateTrkInit ==
    /\ cacheFile \in { [state |-> "absent", map |-> EmptyMap],
                       [state |-> "ok", map |-> MapPut(EmptyMap, RefA, <<"sha256", 1>>)] }
    /\ file_hashes = LoadHashes(cacheFile)
    /\ fsContent \in {[p \in TrkPaths |-> c] : c \in Contents \ {Unreadable}}
    /\ trkCall = NoCall
    /\ markedAs = [p \in TrkPaths |-> NotMarked]

InitGate ==
    /\ RefInitWith(GateOrders, {"ref_a.xml", "items.json"}, BOOLEAN)
    /\ GateTrkInit
    /\ ZipIdle
    /\ UpIdle
    /\ CvIdle

NextGate ==
    \/ RefSkipFile /\ refElse
    \/ RefBeginFile /\ refElse
    \/ RefProcessRecord /\ refElse
    \/ RefCommitFile /\ refElse
    \/ RefReturn /\ refElse

SpecGate == InitGate /\ [][NextGate]_vars

\* One run of process_reference_files under a configuration with errors:
\* a file without mapping (extra.json), mappings without 'table', a lookup
\* rule without 'query'.
ConfigOrders ==
    { <<"types.xml", "extra.json">>,
      <<"items.json", "notable.json">>,
      <<"noquery.xml", "types.xml">>,
      <<"notable.xml", "items.json">> }

InitConfig ==
    /\ RefInitWith(ConfigOrders, {"types.xml", "notable.json", "noquery.xml", "notable.xml"},
                   {FALSE})
    /\ TrkIdle
    /\ ZipIdle
    /\ UpIdle
    /\ CvIdle

NextConfig ==
    \/ RefSkipFile /\ refElse
    \/ RefBeginFile /\ refElse
    \/ RefProcessRecord /\ refElse
    \/ RefCommitFile /\ refElse
    \/ RefReturn /\ refElse

SpecConfig == InitConfig /\ [][NextConfig]_vars

\* One _save_record call on one table.
InitUpsert == SaveInit /\ ZipIdle /\ TrkIdle /\ RefIdle /\ CvIdle

NextUpsert == SaveRecord /\ UNCHANGED <<zipVars, trkVars, refVars, force_process, cvVars>>

SpecUpsert == InitUpsert /\ [][NextUpsert]_vars

\* One run of process_reference_files over two files that look the same
\* value up in the same table, by code and by label.
CacheOrders == { <<"items.json", "tags.json">>, <<"tags.json", "items.json">> }

InitCache ==
    /\ RefInitWith(CacheOrders, {"items.json", "tags.json"}, {FALSE})
    /\ TrkIdle
    /\ ZipIdle
    /\ UpIdle
    /\ CvIdle

NextCache ==
    \/ RefSkipFile /\ refElse
    \/ RefBeginFile /\ refElse
    \/ RefProcessRecord /\ refElse
    \/ RefCommitFile /\ refElse
    \/ RefReturn /\ refElse

SpecCache == InitCache /\ [][NextCache]_vars

\* One convert_field call.
InitConvert == CvInit /\ ZipIdle /\ TrkIdle /\ RefIdle /\ UpIdle

NextConvert == CvConvert /\ UNCHANGED <<zipVars, trkVars, refVars, force_process, upVars>>

SpecConvert == InitConvert /\ [][NextConvert]_vars

(***************************************************************************)
(*                    Properties: secure_extract_zip                       *)
(***************************************************************************)
\* The five policy violations, stated on the archive itself.
ViolatesPolicy(entries, compressed, pol) ==
    \/ Len(entries) > pol.max_files
    \/ compressed > 0 /\ SumSizes(entries, 1) > pol.max_ratio * compressed
    \/ \E e \in Range(entries) : e.file_size > pol.max_file_size
    \/ \E e \in Range(entries) : e.filename[1] = "/"
    \/ \E e \in Range(entries) : \E i \in 1..(Len(e.filename) - 1) :
           e.filename[i] = "." /\ e.filename[i + 1] = "."
    \/ \E e \in Range(entries) : \A ext \in AllowedTypes : ~EndsWith(Lower(e.filename), ext)

\* C1: an archive that violates one of the five policy checks never reaches
\* extraction: the call is before its checks or has raised, and nothing of
\* the archive has been written to the destination directory.
C1_ValidateThenExtract ==
    ViolatesPolicy(zipEntries, zipCompressed, zipPolicy) =>
        /\ zipPc \in {"start", "raised"}
        /\ destDir = {}
        /\ extracted_files = <<>>

C1_Witness ==
    /\ zipPc = "raised"
    /\ zipError = "ratio"
    /\ Len(zipEntries) = 2
    /\ ViolatesPolicy(zipEntries, zipCompressed, zipPolicy)

\* C10: whenever secure_extract_zip has raised, no file of the archive is in
\* the destination directory.
C10_NothingLeftAfterRaise == zipPc = "raised" => destDir = {}

\* C17: an archive whose on-disk compressed size is 0 fails the ratio check:
\* the call never gets past its checks and extracts nothing.
C17_ZeroCompressedFails ==
    zipCompressed = 0 =>
        /\ zipPc \in {"start", "raised"}
        /\ destDir = {}
        /\ extracted_files = <<>>

\* The earliest violated check when each check is run over all entries
\* before the next one starts.
EarliestViolated(entries, compressed, pol) ==
    IF Len(entries) > pol.max_files THEN "too_many_files"
    ELSE IF compressed > 0 /\ SumSizes(entries, 1) > pol.max_ratio * compressed THEN "ratio"
    ELSE IF \E e \in Range(entries) : e.file_size > pol.max_file_size THEN "file_size"
    ELSE IF \E e \in Range(entries) : IsTraversal(e.filename) THEN "traversal"
    ELSE IF \E e \in Range(entries) : ~HasAllowedType(e.filename, AllowedTypes) THEN "extension"
    ELSE "ok"

\* C18: the error a check raises is that of the earliest violated check in
\* the order count, ratio, entry size, traversal, extension, each taken
\* over the whole archive.
C18_FailFastOrder ==
    (zipPc = "raised" /\ zipError \notin {"extract", "validate_file"}) =>
        zipError = EarliestViolated(zipEntries, zipCompressed, zipPolicy)

\* C19: the list under construction holds, in archive order, the entries
\* extracted so far, each written under the destination and accepted by
\* validate_file; a call that returns has listed every entry.
C19_ReturnsValidatedEntries ==
    /\ Len(extracted_files) <= Len(zipEntries)
    /\ \A k \in 1..Len(extracted_files) :
          /\ extracted_files[k] = zipEntries[k].filename
          /\ extracted_files[k] \in destDir
          /\ zipEntries[k].file_size <= zipPolicy.max_size
    /\ zipPc = "returned" =>
          /\ Len(extracted_files) = Len(zipEntries)
          /\ EarliestViolated(zipEntries, zipCompressed, zipPolicy) = "ok"

C19_Witness ==
    /\ zipPc = "returned"
    /\ Len(extracted_files) = 2
    /\ extracted_files[1] # extracted_files[2]
    /\ zipCompressed > 0

(***************************************************************************)
(*                      Properties: FileHashTracker                        *)
(***************************************************************************)
RefPaths == {p \in TrkPaths : p.name = RefA}

NonRefPaths == {p \in TrkPaths : p.name \in {DataX, RefBare}}

\* C7: needs_processing(f) on a reference file f answers false exactly while
\* f has the content it had when mark_processed(f) last stored its entry
\* (no clear_cache and no mark of a same-named file since), true once the
\* content differs, and true when the filename is not in the stored map.
C7_NeedsProcessingFollowsContent ==
    (trkCall.op = "needs_processing" /\ trkCall.path \in RefPaths) =>
        LET f == trkCall.path IN
          /\ markedAs[f].marked =>
                (trkCall.result = (fsContent[f] # markedAs[f].content))
          /\ f.name \notin DOMAIN file_hashes => trkCall.result = TRUE

C7_Witness ==
    /\ trkCall.op = "needs_processing"
    /\ trkCall.path \in RefPaths
    /\ markedAs[trkCall.path].marked
    /\ fsContent[trkCall.path] # markedAs[trkCall.path].content
    /\ fsContent[trkCall.path] # Unreadable
    /\ markedAs[trkCall.path].content # Unreadable
    /\ trkCall.result = TRUE

C15_SideFileMirrorsMap ==
    (\/ trkCall.op = "mark_processed" /\ is_reference_file(trkCall.path)
     \/ trkCall.op = "clear_cache") =>
        /\ cacheFile = [state |-> "ok", map |-> file_hashes]
        /\ LoadHashes(cacheFile) = file_hashes

\* C16: when the process stops during mark_processed or clear_cache, the
\* side-file is the complete previous one or holds the complete new map,
\* and the tracker constructed afterwards loads one of the two maps.
C16_AtomicOverwrite ==
    /\ trkCall.op = "stopped" =>
          \/ cacheFile = trkCall.cacheBefore
          \/ cacheFile = [state |-> "ok", map |-> trkCall.written]
    /\ trkCall.op = "restarted" =>
          file_hashes \in {LoadHashes(trkCall.cacheBefore), trkCall.written}


(***************************************************************************)
(*                     Properties: ReferenceProcessor                      *)
(***************************************************************************)
IsPresent(f) == f \in onDisk

IsAbsent(f) == f \notin onDisk

\* session.commit() was issued for the i-th file of the order and returned.
CommittedOkIn(log, i) == \E k \in 1..Len(log) : log[k].file = i /\ log[k].ok

\* The rows of `rows` that the i-th file of the order wrote.
RowsOf(rows, i) == {rows[k] : k \in {j \in 1..Len(rows) : rows[j].file = i}}

\* The statements _save_record sent for the keyed records of the i-th file.
KeyedOf(i) == {stmtLog[k].stmt : k \in {j \in 1..Len(stmtLog) : stmtLog[j].stmt.file = i}}

\* C2: when _process_file raises on the N-th file, every earlier present
\* file has been committed and its rows stay as committed, the session is
\* rolled back at least once on the way out and holds no open write, no
\* commit is issued for file N, nothing of a later file was looked up or
\* persisted, and the run ends raised: no step follows.
C2_FailureOfFileN ==
    [][ /\ refPc # "raised"
        /\ (refPc' = "raised" /\ refFailure' # "commit_error") =>
             /\ \A i \in 1..(fileIdx - 1) :
                    refOrder[i] \in onDisk => CommittedOkIn(commitLog', i)
             /\ committedRows' = committedRows
             /\ rollbacks' >= rollbacks + 1
             /\ pendingRows' = <<>>
             /\ \A k \in 1..Len(commitLog') : commitLog'[k].file # fileIdx
             /\ fileIdx' = fileIdx
             /\ \A k \in 1..Len(stmtLog') : stmtLog'[k].stmt.file <= fileIdx
             /\ \A k \in 1..Len(queryLog') : queryLog'[k].file <= fileIdx
      ]_vars

C2_Witness ==
    /\ refPc = "raised"
    /\ refFailure = "save_error"
    /\ fileIdx = 2
    /\ Len(processed_files) = 1
    /\ RowsOf(committedRows, 1) # {}

\* C3: for each file of the run the committed rows are those of all of its
\* keyed records or none; a committed (processed) file has all of them.
C3_FileAtomic ==
    \A i \in 1..Len(refOrder) :
        /\ CommittedOkIn(commitLog, i) => RowsOf(committedRows, i) = KeyedOf(i)
        /\ ~CommittedOkIn(commitLog, i) => RowsOf(committedRows, i) = {}

\* C4: a statement that failed, for whatever reason, ended the run: it is the
\* last statement sent, the run has raised and its file is not processed.
C4_PersistenceFailureRaises ==
    \A k \in 1..Len(stmtLog) :
        stmtLog[k].outcome # "ok" =>
            /\ refPc = "raised"
            /\ k = Len(stmtLog)
            /\ refOrder[stmtLog[k].stmt.file] \notin Range(processed_files)

\* C5: _save_record on a record with neither an id nor a code column sends
\* no statement and raises nothing; no statement is ever sent without one
\* of the two columns.
C5_UnkeyedNeverPersisted ==
    /\ (/\ lastSave.called
        /\ "id" \notin DOMAIN lastSave.data
        /\ "code" \notin DOMAIN lastSave.data) =>
            /\ ~lastSave.issued
            /\ refPc = "records"
            /\ refFailure = "none"
    /\ \A k \in 1..Len(stmtLog) :
           "id" \in DOMAIN stmtLog[k].stmt.values \/ "code" \in DOMAIN stmtLog[k].stmt.values

C5_Witness ==
    /\ lastSave.called
    /\ DOMAIN lastSave.data = {"created", "modified"}
    /\ ~lastSave.issued

SameKey(c, d) == c.table = d.table /\ c.value = d.value

\* The calls with the (table, value) of call i that reached the database.
QueriesLike(i) ==
    {k \in 1..Len(queryLog) : SameKey(queryLog[k], queryLog[i]) /\ queryLog[k].kind # "hit"}

\* C6 as stated: two calls with the same (table, value) cost one query in
\* all, whatever the first call's outcome.
C6_OneQueryPerKey ==
    \A i, j \in 1..Len(queryLog) :
        (i < j /\ SameKey(queryLog[i], queryLog[j])) => Cardinality(QueriesLike(i)) = 1

\* C6 as amended: once a call's query has run (found key or null), every
\* later call with the same (table, value) is served from the cache, so the
\* calls cost exactly one query; a call whose query failed caches nothing
\* and the next call with that (table, value) goes to the database again.
C6_OneAnsweredQueryPerKey ==
    \A i, j \in 1..Len(queryLog) :
        (i < j /\ SameKey(queryLog[i], queryLog[j])) =>
            /\ queryLog[i].kind \in {"query", "hit"} => queryLog[j].kind = "hit"
            /\ (\A k \in 1..(i - 1) : ~SameKey(queryLog[k], queryLog[i])) =>
                   /\ queryLog[i].kind # "hit"
                   /\ queryLog[i].kind = "query" => QueriesLike(i) = {i}
            /\ (/\ queryLog[i].kind = "failed"
                /\ \A k \in (i + 1)..(j - 1) : ~SameKey(queryLog[k], queryLog[i])) =>
                   queryLog[j].kind # "hit"

C6_Witness ==
    \E i, j \in 1..Len(queryLog) :
        /\ i < j
        /\ SameKey(queryLog[i], queryLog[j])
        /\ queryLog[i].kind = "query"
        /\ queryLog[j].kind = "hit"
        /\ lookup_cache[CacheKey(queryLog[i].table, queryLog[i].value)] = Null

\* C9: a run that returns has processed exactly the files of the order that
\* are present and skipped exactly the absent ones, both in configured
\* order; only files of the order are processed; a run raises only on a
\* present file.
C9_ProcessedAndSkipped ==
    /\ refPc = "returned" =>
          /\ processed_files = SelectSeq(refOrder, IsPresent)
          /\ skipped_files = SelectSeq(refOrder, IsAbsent)
    /\ Range(processed_files) \subseteq Range(refOrder)
    /\ \A k \in 1..Len(stmtLog) : stmtLog[k].stmt.file \in 1..Len(refOrder)
    /\ refPc = "raised" => refOrder[fileIdx] \in onDisk

C9_Witness ==
    /\ refPc = "returned"
    /\ processed_files = <<"items.json", "types.xml">>
    /\ skipped_files = <<"missing.xml">>
    /\ "extra.json" \in onDisk

\* The field rules of file f that carry a lookup.
LookupRules(f) ==
    LET fields == FieldMapping(f).fields IN
      {fields[i] : i \in {j \in 1..Len(fields) : fields[j].lookup # NoLookup}}

\* What the last _perform_lookup call of the log returned.
LastResult(calls, cache) ==
    LET c == calls[Len(calls)] IN
      IF c.kind = "failed" THEN Null ELSE cache[CacheKey(c.table, c.value)]

\* C13: for XML and JSON alike, a record whose lookup source key is missing
\* gets no column and causes no lookup; one whose source key is present
\* causes one lookup, and when that resolves to null the target column is
\* in the extracted record with value null.
C13_LookupMissSetsNull ==
    [][ lastSave'.called =>
          \A fc \in LookupRules(refOrder[fileIdx]) :
             IF Get(lastSave'.src, fc.key) = Null
             THEN /\ queryLog' = queryLog
                  /\ fc.db_field \notin DOMAIN lastSave'.data
             ELSE /\ Len(queryLog') = Len(queryLog) + 1
                  /\ LastResult(queryLog', lookup_cache') = Null =>
                        /\ fc.db_field \in DOMAIN lastSave'.data
                        /\ lastSave'.data[fc.db_field] = Null
      ]_vars

\* C14: when a configuration error (no mapping, no table name or field map,
\* a lookup rule without table or query) makes the run raise, no record of
\* the file has been taken up: the file was at its start, and no lookup and
\* no statement of the file has been issued.
C14_ConfigErrorBeforeProcessing ==
    [][ (/\ refPc # "raised"
         /\ refPc' = "raised"
         /\ refFailure' \in {"no_mapping", "config_error"}) =>
           /\ refPc = "loop"
           /\ \A k \in 1..Len(stmtLog') : stmtLog'[k].stmt.file # fileIdx
           /\ \A k \in 1..Len(queryLog') : queryLog'[k].file # fileIdx
      ]_vars

\* C20: a _perform_lookup whose query fails adds nothing to the cache and
\* raises nothing: the fields after it are still extracted, the record goes
\* on to _save_record, and unless the save itself fails the loop moves to
\* the next record.
C20_LookupFailureContained ==
    [][ (/\ Len(queryLog') > Len(queryLog)
         /\ queryLog'[Len(queryLog')].kind = "failed") =>
           LET c == queryLog'[Len(queryLog')] IN
             /\ lookup_cache' = lookup_cache
             /\ CacheKey(c.table, c.value) \notin DOMAIN lookup_cache'
             /\ lastSave'.called
             /\ Get(lastSave'.src, "name") # Null => "name" \in DOMAIN lastSave'.data
             /\ refPc' = "raised" => lastSave'.outcome = "error"
             /\ refPc' # "raised" => (refPc' = "records" /\ recIdx' = recIdx + 1)
      ]_vars

C20_Witness ==
    /\ queryLog # <<>>
    /\ queryLog[Len(queryLog)].kind = "failed"
    /\ lastSave.called
    /\ "type" \in DOMAIN lastSave.src
    /\ "name" \in DOMAIN lastSave.data
    /\ "type_id" \notin DOMAIN lastSave.data
    /\ refPc = "records"
    /\ recIdx = 2

\* C11: unless force_process is set, the run parses no reference-pattern
\* file for which needs_processing is false, and every reference-pattern
\* file the run has processed and committed is marked: the tracker holds
\* the digest of its content.
C11_TrackerGatesRun ==
    /\ (refPc = "records" /\ ~force_process) =>
           needs_processing(file_hashes, fsContent, TrackedPath(refOrder[fileIdx]))
    /\ \A k \in 1..Len(processed_files) :
           LET path == TrackedPath(processed_files[k]) IN
             is_reference_file(path) =>
                /\ path.name \in DOMAIN file_hashes
                /\ file_hashes[path.name] = calculate_file_hash(fsContent, path)

(***************************************************************************)
(*                        Properties: _save_record                         *)
(***************************************************************************)
\* C12: after _save_record of a keyed record, every non-key column of the
\* record holds the record's value in the stored row (none keeps what the
\* row held before); without an earlier row the row holds the record's
\* non-null columns.
C12_LastWriteWins ==
    (savePc = "saved" /\ IssuesStatement(saveData)) =>
        \A c \in DOMAIN saveData \ {"id", "code"} : Get(storedRow, c) = saveData[c]

(***************************************************************************)
(*                      Properties: convert_field                          *)
(***************************************************************************)
\* value.strip() of a string, the value itself otherwise
Trimmed(value) == IF value.k = "str" THEN StrV(Strip(value.s)) ELSE value

Blank(value) == value.k = "str" /\ Strip(value.s) = <<>>

\* C21: convert_field(v, 'date') without a format reads a numeric date
\* whose year is last day-first, for each of the separators - / . : the
\* first number is the day and the second the month whenever that is a
\* date; and when a format is given under which v parses exactly, the result
\* is that parse.
C21_DayFirstDefault ==
    cvOut # NoOut /\ cvType = "date" /\ cvValue.k = "str" =>
        /\ cvFormat = NoFormat =>
              \A c \in DateSeparators : \A a \in TwoDigits : \A b \in TwoDigits :
                  /\ cvValue.s = a \o <<c>> \o b \o <<c>> \o Year
                  /\ ValidDate(DigitsToInt(Year, 0), DigitsToInt(b, 0), DigitsToInt(a, 0))
                  => cvOut.ret = DateV(DigitsToInt(Year, 0), DigitsToInt(b, 0), DigitsToInt(a, 0))
        /\ cvFormat # NoFormat /\ strptime(Trimmed(cvValue), cvFormat.s).exc = "none"
              => cvOut.ret = strptime(Trimmed(cvValue), cvFormat.s).v

\* The string is a decimal number: digits with at most one point and an
\* optional sign.
NumericLooking(str) ==
    LET f == ParseFloat(str) IN f.exc = "none" /\ f.v.s = <<>>

\* The number a numeric-looking string denotes, without its fraction.
TowardZero(str) ==
    LET h == ParseFloat(str).v.n IN
      IF h >= 0 THEN h \div FloatScale ELSE 0 - ((0 - h) \div FloatScale)

\* C22 (as stated): convert_field(v, 'integer') for a string v returns v's
\* number truncated toward zero when v is numeric-looking, and for every
\* other string returns null and logs an error; it never returns a string.
C22_IntegerOfString ==
    cvOut # NoOut /\ cvType = "integer" /\ cvValue.k = "str" =>
        /\ cvOut.raised = "none"
        /\ cvOut.ret.k # "str"
        /\ IF NumericLooking(Strip(cvValue.s))
           THEN cvOut.ret = IntV(TowardZero(Strip(cvValue.s)))
           ELSE cvOut.ret = Null /\ "error" \in Range(cvOut.log)

\* C22 (amended): as above, except that an empty or whitespace-only string
\* yields null without any log entry.
C22_IntegerOfNonBlankString ==
    cvOut # NoOut /\ cvType = "integer" /\ cvValue.k = "str" =>
        /\ cvOut.raised = "none"
        /\ cvOut.ret.k # "str"
        /\ IF NumericLooking(Strip(cvValue.s))
           THEN cvOut.ret = IntV(TowardZero(Strip(cvValue.s)))
           ELSE IF Blank(cvValue)
           THEN cvOut.ret = Null /\ cvOut.log = <<>>
           ELSE cvOut.ret = Null /\ "error" \in Range(cvOut.log)

\* A number with a fraction, negative or not, has been converted to integer.
C22_Witness ==
    /\ cvOut # NoOut /\ cvType = "integer"
    /\ \/ cvValue = StrV(<<"-", ".", "1">>) /\ cvOut.ret = IntV(0)
       \/ cvValue = StrV(<<"1", ".", "1">>) /\ cvOut.ret = IntV(1)

\* C23: convert_field(v, 'boolean') of a string, the empty and the
\* whitespace-only string included, is never null: it is true when the
\* trimmed lower-cased string is one of true, yes, 1, t, y and false
\* otherwise.
C23_BooleanNeverNull ==
    cvOut # NoOut /\ cvType = "boolean" /\ cvValue.k = "str" =>
        cvOut.ret = BoolV(Lower(Strip(cvValue.s)) \in TrueTokens)

\* The comma-separated parts of a string, trimmed, without the empty ones.
Parts(str) ==
    LET kept == SelectSeq(SplitOn(str, ","), LAMBDA item : Strip(item) # <<>>) IN
      [i \in 1..Len(kept) |-> StrV(Strip(kept[i]))]

\* C24: convert_field(v, 'array') is the list of the trimmed non-empty
\* comma-separated parts of a string, the list itself for a list, the
\* one-element list of any other scalar, and the empty list (never null)
\* for null and for a blank string.
C24_ArrayConversion ==
    cvOut # NoOut /\ cvType = "array" =>
        cvOut.ret = CASE cvValue.k = "null" \/ Blank(cvValue) -> ListV(<<>>)
                      [] cvValue.k = "str" /\ ~Blank(cvValue) -> ListV(Parts(Strip(cvValue.s)))
                      [] cvValue.k = "list" -> cvValue
                      [] OTHER -> ListV(<<cvValue>>)

\* C25: convert_field(v, 'string') is null only for null and for a value
\* whose text is empty after trimming; every other value, the number 0 and
\* the boolean false included, yields its trimmed text.
C25_StringKeepsFalsyValues ==
    cvOut # NoOut /\ cvType = "string" =>
        IF cvValue.k = "null" \/ Strip(Str(cvValue)) = <<>>
        THEN cvOut.ret = Null
        ELSE cvOut.ret = StrV(Strip(Str(cvValue)))

\* The kind of value a known field type converts to.
KindOf(field_type) ==
    CASE field_type = "string" -> "str"
      [] field_type = "integer" -> "int"
      [] field_type = "float" -> "float"
      [] field_type = "boolean" -> "bool"
      [] field_type = "date" -> "date"
      [] field_type = "datetime" -> "datetime"
      [] field_type = "array" -> "list"
      [] OTHER -> "any"

\* What C26 says of every field type: the call returns, a known type yields
\* a value of that type or null, and null whenever an error was logged.
NeverRaises ==
    /\ cvOut.raised = "none"
    /\ "error" \in Range(cvOut.log) => cvOut.ret = Null
    /\ KindOf(cvType) # "any" => cvOut.ret.k \in {KindOf(cvType), "null"}

\* C26 (as stated): convert_field never raises, a failed conversion to a
\* known type yields null, and for an unknown field type the result is the
\* trimmed input.
C26_NeverRaises ==
    cvOut # NoOut =>
        /\ NeverRaises
        /\ KindOf(cvType) = "any" => cvOut.ret = Trimmed(cvValue)

\* C26 (amended): as above, except that under an unknown field type a blank
\* string yields null, not the empty string.
C26_NeverRaisesBlankIsNull ==
    cvOut # NoOut =>
        /\ NeverRaises
        /\ KindOf(cvType) = "any" =>
              cvOut.ret = IF Blank(cvValue) THEN Null ELSE Trimmed(cvValue)

\* An exception that is not a ValueError reached the handler of line 110
\* and the call returned null: int(float('inf')) or int([]).
C26_Witness ==
    /\ cvOut # NoOut /\ cvType = "integer"
    /\ cvValue \in {StrV(<<"i", "n", "f">>), ListV(<<>>)}
    /\ cvOut = Returned(Null, <<"error">>)

(***************************************************************************)
(*                   Properties: _save_record and its key                  *)
(***************************************************************************)
\* C27: a record whose id or code column holds a non-null value, the
\* integer 0 included, is persisted: _save_record executes its INSERT ...
\* ON DUPLICATE KEY UPDATE statement and flushes.
C27_KeyedRecordPersisted ==
    /\ savePc # "ready"
    /\ Get(saveData, "id") # Null \/ Get(saveData, "code") # Null
    => savePc = "saved"

(***************************************************************************)
(*               Properties: commits of process_reference_files            *)
(***************************************************************************)
\* C28: commits and files alternate. The k-th commit that succeeded is the
\* commit of the k-th entry of processed_files and no file is committed
\* twice; no commit is issued for a file that is not on disk; a lookup or a
\* statement is issued for the current file only, while that file has no
\* commit yet and every earlier file on disk has its commit; a commit is
\* issued alone, for the current file; on normal return there are as many
\* commits as processed files.
C28_CommitsAlternateWithFiles ==
    [][ /\ \A k \in 1..Len(commitLog') :
              /\ refOrder[commitLog'[k].file] \in onDisk
              /\ \A j \in 1..Len(commitLog') :
                    commitLog'[j].file = commitLog'[k].file => j = k
        /\ Len(processed_files') <= Len(commitLog')
        /\ \A k \in 1..Len(commitLog') :
              IF k <= Len(processed_files')
              THEN /\ commitLog'[k].ok
                   /\ refOrder[commitLog'[k].file] = processed_files'[k]
              ELSE ~commitLog'[k].ok /\ k = Len(commitLog') /\ refPc' = "raised"
        /\ (stmtLog' # stmtLog \/ queryLog' # queryLog) =>
              /\ commitLog' = commitLog
              /\ \A k \in (Len(stmtLog) + 1)..Len(stmtLog') : stmtLog'[k].stmt.file = fileIdx
              /\ \A k \in (Len(queryLog) + 1)..Len(queryLog') : queryLog'[k].file = fileIdx
              /\ \A k \in 1..Len(commitLog) : commitLog[k].file # fileIdx
              /\ \A i \in 1..(fileIdx - 1) :
                    refOrder[i] \in onDisk => CommittedOkIn(commitLog, i)
        /\ commitLog' # commitLog =>
              /\ Len(commitLog') = Len(commitLog) + 1
              /\ SubSeq(commitLog', 1, Len(commitLog)) = commitLog
              /\ commitLog'[Len(commitLog')].file = fileIdx
              /\ stmtLog' = stmtLog /\ queryLog' = queryLog
        /\ refPc' = "returned" => Len(commitLog') = Len(processed_files')
      ]_vars

\* A run returned after two files with statements, committed one after the
\* other, and a skipped file between them.
C28_Witness ==
    /\ refPc = "returned"
    /\ Len(processed_files) = 2
    /\ Len(skipped_files) = 1
    /\ Len(commitLog) = 2
    /\ \E a \in 1..Len(stmtLog) : \E b \in 1..Len(stmtLog) :
          stmtLog[a].stmt.file = 1 /\ stmtLog[b].stmt.file = 3

(***************************************************************************)
(*                     Properties: the lookup cache                        *)
(***************************************************************************)
\* C29: a lookup that is answered (from the cache or by its query) after
\* the run itself has upserted a row with the looked-up code into the
\* lookup table, the row being visible to the session, does not resolve to
\* null.
C29_LookupSeesUpsertedRow ==
    [][ \A k \in (Len(queryLog) + 1)..Len(queryLog') :
          LET c == queryLog'[k]
              rows == committedRows \o pendingRows
          IN (/\ c.kind # "failed"
              /\ \E i \in 1..Len(rows) :
                    /\ rows[i].file > 0
                    /\ rows[i].table = c.table
                    /\ Get(rows[i].values, "code") = StrV(c.value)
                    /\ Get(rows[i].values, "id") # Null)
             => lookup_cache'[CacheKey(c.table, c.value)] # Null
      ]_vars

\* C30: a lookup served from the cache is served a result that an earlier
\* call with the same table, the same query template and the same raw
\* value stored: calls that differ in one of the three share no entry.
C30_CacheHitOfSameLookup ==
    \A i \in 1..Len(queryLog) :
        queryLog[i].kind = "hit" =>
            \E j \in 1..(i - 1) :
                /\ queryLog[j].kind = "query"
                /\ queryLog[j].table = queryLog[i].table
                /\ queryLog[j].query = queryLog[i].query
                /\ queryLog[j].value = queryLog[i].value

====
